---- MODULE Spec2Model ----
(***************************************************************************)
(* A model of trie.c: the node pool (init_pool, alloc_node), insertion     *)
(* (insert_text, driven by populate_trie), prefix descent (find_prefix),   *)
(* suggestion collection (print_suggestions), the DOT export               *)
(* (generate_dot, dump_dot_whole, dump_dot_prefix) and the option loop     *)
(* (parse_options), together with the part of main/process_args that       *)
(* sequences them.                                                         *)
(*                                                                         *)
(* Strings are sequences of byte values (the terminating NUL is the end of *)
(* the sequence).  The pool is a function from node index to Node.  A pool *)
(* that holds the path of one long word (the "filler" line, a run of the   *)
(* byte FILL_BYTE) is stored compactly: nodes 1..fill are given by         *)
(* ChainNode and only the root and the nodes after them are kept in the    *)
(* variable `pool`; PoolAt reads both.  A children array is stored as the   *)
(* function from its bound slots to their values; ChildAt reads a slot and *)
(* yields INVALID_OFFSET for the others.                                   *)
(***************************************************************************)
EXTENDS Integers, Sequences, FiniteSets, TLC

\* ------------------------------------------------------------ constants
CHILDREN_COUNT == 95
ASCII_OFFSET == 32
INVALID_OFFSET == -1
INITIAL_POOL_CAP == 2048
AC_BUFFER_CAP == 2048
INT32_MAX == 2147483647

\* ------------------------------------------------------------ bounds
\* longest line / prefix the model feeds to the program
MaxLen == 2
\* number of insert_text calls populate_trie makes
MaxLines == 3
\* the same, in the runs that start from a pool next to a growth step
PoolLines == 2
\* the same, in the runs whose lines hold bytes outside the alphabet
RawLines == 2
\* the same, in the runs that end with the DOT export
DotLines == 2
\* the same, after the filler line, in the runs with a line as long as ac_buffer
LongLines == 1
\* number of options on the command line
MaxArgs == 3

\* Bytes of the printable alphabet used in lines and prefixes: the first and
\* the last printable character (slots 0 and 94).
SampleBytes == {32, 126}
\* Bytes outside the printable range: one below, one above.
BadBytes == {31, 127}
\* The byte of the filler line; no other line or prefix uses it.
FILL_BYTE == 122

RECURSIVE StringsOver(_, _)
StringsOver(B, n) ==
    IF n = 0 THEN {<<>>}
    ELSE LET S == StringsOver(B, n - 1)
         IN  S \cup {Append(s, b) : s \in {t \in S : Len(t) = n - 1}, b \in B}

Words == StringsOver(SampleBytes, MaxLen)
RawWords == StringsOver(SampleBytes \cup BadBytes, MaxLen)

\* Lengths of the filler line that put the pool at or next to a growth step:
\* count = fill + 1.
FillSet == {INITIAL_POOL_CAP - 2, INITIAL_POOL_CAP - 1,
            2 * INITIAL_POOL_CAP - 1, 3 * INITIAL_POOL_CAP - 1,
            INT32_MAX - INITIAL_POOL_CAP, INT32_MAX - 3, INT32_MAX - 2,
            INT32_MAX - 1}

VARIABLES
    pc,          \* where main is: "init", "root", "populate", "args", "done", "exited", "killed";
                 \* in parse_options: "options", "parsed", "usage_err", "help"
    pool,        \* Trie.pool: node index -> Node (see PoolAt)
    count,       \* Trie.count
    capacity,    \* Trie.capacity
    heap,        \* number of Nodes the block Trie.pool points to can hold
    fill,        \* length of the filler line inserted first (0: none)
    nlines,      \* insert_text calls made by populate_trie so far
    inserted,    \* the lines for which insert_text returned true
    last,        \* the last call: [op, arg, ok, node, pos]
    ac_buffer,   \* ac_buffer[0 .. ac_buffer_sz)
    out,         \* the lines print_suggestions wrote to stdout
    oob,         \* some children array was indexed outside [0, CHILDREN_COUNT)
    ac_peak,     \* the largest value ac_buffer_sz has had
    dot,         \* the statements generate_dot wrote to the DOT file
    cli          \* parse_options: [argv, kflag, sflag, cflag, pflag, err_flag, error]

vars == <<pc, pool, count, capacity, heap, fill, nlines, inserted, last,
          ac_buffer, out, oob, ac_peak, dot, cli>>

\* ------------------------------------------------------------ Node, pool
Slots == 0 .. (CHILDREN_COUNT - 1)

\* The node alloc_node hands out: memset(children, INVALID_OFFSET), terminal = false.
FreshNode == [children |-> [k \in {} |-> INVALID_OFFSET], terminal |-> FALSE]

\* node.children[k], for k in Slots
ChildAt(node, k) ==
    IF k \in DOMAIN node.children THEN node.children[k] ELSE INVALID_OFFSET

\* node.children[k] = v
ChildSet(node, k, v) ==
    [node EXCEPT !.children = [j \in (DOMAIN node.children) \cup {k} |->
                                  IF j = k THEN v ELSE node.children[j]]]

\* Node i (1 <= i <= f) of the path of the filler line of length f.
ChainNode(i, f) ==
    [children |-> [k \in (IF i < f THEN {FILL_BYTE - ASCII_OFFSET} ELSE {}) |-> i + 1],
     terminal |-> (i = f)]

\* The machine state the functions below read and write.
Mem == [pool |-> pool, count |-> count, capacity |-> capacity, heap |-> heap,
        fill |-> fill, status |-> "ok", oob |-> oob]

\* Trie.pool[i]
PoolAt(m, i) == IF i \in DOMAIN m.pool THEN m.pool[i] ELSE ChainNode(i, m.fill)

\* Trie.pool[i] = node
PoolSet(m, i, node) ==
    [m EXCEPT !.pool = [j \in (DOMAIN m.pool) \cup {i} |->
                           IF j = i THEN node ELSE m.pool[j]]]

Min(a, b) == IF a < b THEN a ELSE b

\* alloc_node that grows the pool only once count is past capacity.
alloc_node_late_growth(m, realloc_ok) ==
    IF m.count > m.capacity
    THEN LET remaining == INT32_MAX - m.capacity
         IN  IF remaining = 0
             THEN [m |-> [m EXCEPT !.status = "exit"], ret |-> INVALID_OFFSET]
             ELSE LET grown == [m EXCEPT !.capacity =
                                   m.capacity + Min(remaining, INITIAL_POOL_CAP)]
                  IN  IF ~realloc_ok
                      THEN [m |-> grown, ret |-> INVALID_OFFSET]
                      ELSE [m |-> [PoolSet(grown, m.count, FreshNode) EXCEPT
                                      !.heap = grown.capacity,
                                      !.count = m.count + 1],
                            ret |-> m.count]
    ELSE [m |-> [PoolSet(m, m.count, FreshNode) EXCEPT !.count = m.count + 1],
          ret |-> m.count]

\* alloc_node with another growth policy: capacity doubles, the last step
\* taking the remaining headroom.
alloc_node_doubling(m, realloc_ok) ==
    IF m.count >= m.capacity
    THEN LET remaining == INT32_MAX - m.capacity
         IN  IF remaining = 0
             THEN [m |-> [m EXCEPT !.status = "exit"], ret |-> INVALID_OFFSET]
             ELSE LET grown == [m EXCEPT !.capacity =
                                   m.capacity + Min(remaining, m.capacity)]
                  IN  IF ~realloc_ok
                      THEN [m |-> grown, ret |-> INVALID_OFFSET]
                      ELSE [m |-> [PoolSet(grown, m.count, FreshNode) EXCEPT
                                      !.heap = grown.capacity,
                                      !.count = m.count + 1],
                            ret |-> m.count]
    ELSE [m |-> [PoolSet(m, m.count, FreshNode) EXCEPT !.count = m.count + 1],
          ret |-> m.count]

\* alloc_node(): [m: the state after the call, ret: the index or INVALID_OFFSET].
\* realloc_ok: whether realloc succeeds if it is called.  status "exit": the
\* call ended the process with exit(EXIT_FAILURE).
alloc_node(m, realloc_ok) ==
    IF m.count >= m.capacity
    THEN LET remaining == INT32_MAX - m.capacity
         IN  IF remaining = 0
             THEN [m |-> [m EXCEPT !.status = "exit"], ret |-> INVALID_OFFSET]
             ELSE LET grown == [m EXCEPT !.capacity =
                                   m.capacity + Min(remaining, INITIAL_POOL_CAP)]
                  IN  IF ~realloc_ok
                      THEN [m |-> grown, ret |-> INVALID_OFFSET]
                      ELSE [m |-> [PoolSet(grown, m.count, FreshNode) EXCEPT
                                      !.heap = grown.capacity,
                                      !.count = m.count + 1],
                            ret |-> m.count]
    ELSE [m |-> [PoolSet(m, m.count, FreshNode) EXCEPT !.count = m.count + 1],
          ret |-> m.count]

\* ------------------------------------------------------------ insertion
\* What an access to children[idx] with idx outside [0, CHILDREN_COUNT) may
\* do (undefined behaviour).  The process is killed (kill), or the read
\* yields INVALID_OFFSET, or it yields the index of some node; write:
\* the store lands outside the nodes ("lost") or on the terminal flag that
\* follows the children array in the same Node ("terminal").  One choice is
\* applied to every such access of a call.
Garbage(n) ==
    {[kill |-> TRUE, read |-> INVALID_OFFSET, write |-> "lost"]} \cup
    [kill : {FALSE}, read : {INVALID_OFFSET} \cup (0 .. (n - 1)),
     write : {"lost", "terminal"}]
\* The same for a function that only reads the array.
ReadGarbage(n) == {g \in Garbage(n) : g.write = "lost"}
NoGarbage == [kill |-> TRUE, read |-> INVALID_OFFSET, write |-> "lost"]

\* The store left out: the node alloc_node returned is bound in no slot.
BindChild_skipped(m, root_idx, idx, tmp, g) == m

\* Trie.pool[root_idx].children[idx] = tmp
BindChild(m, root_idx, idx, tmp, g) ==
    LET node == PoolAt(m, root_idx)
    IN  IF idx \in Slots
        THEN PoolSet(m, root_idx, ChildSet(node, idx, tmp))
        ELSE IF g.write = "terminal"
             THEN PoolSet(m, root_idx, [node EXCEPT !.terminal = TRUE])
             ELSE m

RECURSIVE insert_text_marks_path(_, _, _, _, _)
\* insert_text that sets the terminal flag of every node it walks through.
insert_text_marks_path(m, root_idx, text, realloc_ok, g) ==
    LET mm == PoolSet(m, root_idx, [PoolAt(m, root_idx) EXCEPT !.terminal = TRUE])
    IN  IF text = <<>>
        THEN [m |-> mm, ret |-> TRUE]
        ELSE LET idx == Head(text) - ASCII_OFFSET
                 m1 == IF idx \in Slots THEN mm ELSE [mm EXCEPT !.oob = TRUE]
                 slot == IF idx \in Slots THEN ChildAt(PoolAt(mm, root_idx), idx)
                         ELSE g.read
             IN  IF idx \notin Slots /\ g.kill
                 THEN [m |-> [m1 EXCEPT !.status = "killed"], ret |-> FALSE]
                 ELSE IF slot = INVALID_OFFSET
                 THEN LET a == alloc_node(m1, realloc_ok)
                      IN  IF a.m.status # "ok" \/ a.ret = INVALID_OFFSET
                          THEN [m |-> a.m, ret |-> FALSE]
                          ELSE insert_text_marks_path(
                                   BindChild(a.m, root_idx, idx, a.ret, g),
                                   a.ret, Tail(text), realloc_ok, g)
                 ELSE insert_text_marks_path(m1, slot, Tail(text), realloc_ok, g)

RECURSIVE insert_text_always_allocs(_, _, _, _, _)
\* insert_text without the test of the child slot: every byte gets a new node.
insert_text_always_allocs(m, root_idx, text, realloc_ok, g) ==
    IF text = <<>>
    THEN [m |-> PoolSet(m, root_idx, [PoolAt(m, root_idx) EXCEPT !.terminal = TRUE]),
          ret |-> TRUE]
    ELSE LET idx == Head(text) - ASCII_OFFSET
             m1 == IF idx \in Slots THEN m ELSE [m EXCEPT !.oob = TRUE]
         IN  IF idx \notin Slots /\ g.kill
             THEN [m |-> [m1 EXCEPT !.status = "killed"], ret |-> FALSE]
             ELSE LET a == alloc_node(m1, realloc_ok)
                  IN  IF a.m.status # "ok" \/ a.ret = INVALID_OFFSET
                      THEN [m |-> a.m, ret |-> FALSE]
                      ELSE insert_text_always_allocs(
                               BindChild(a.m, root_idx, idx, a.ret, g),
                               a.ret, Tail(text), realloc_ok, g)

RECURSIVE insert_text(_, _, _, _, _)
\* insert_text(root_idx, text): [m: the state after the call, ret: its result].
insert_text(m, root_idx, text, realloc_ok, g) ==
    IF text = <<>>
    THEN [m |-> PoolSet(m, root_idx, [PoolAt(m, root_idx) EXCEPT !.terminal = TRUE]),
          ret |-> TRUE]
    ELSE LET idx == Head(text) - ASCII_OFFSET
             m1 == IF idx \in Slots THEN m ELSE [m EXCEPT !.oob = TRUE]
             slot == IF idx \in Slots THEN ChildAt(PoolAt(m, root_idx), idx)
                     ELSE g.read
         IN  IF idx \notin Slots /\ g.kill
             THEN [m |-> [m1 EXCEPT !.status = "killed"], ret |-> FALSE]
             ELSE IF slot = INVALID_OFFSET
             THEN LET a == alloc_node(m1, realloc_ok)
                  IN  IF a.m.status # "ok" \/ a.ret = INVALID_OFFSET
                      THEN [m |-> a.m, ret |-> FALSE]
                      ELSE insert_text(BindChild(a.m, root_idx, idx, a.ret, g),
                                       a.ret, Tail(text), realloc_ok, g)
             ELSE insert_text(m1, slot, Tail(text), realloc_ok, g)

\* ------------------------------------------------------------ queries
ac_buffer_push(buf, ch) == Append(buf, ch)

\* ac_buffer_pop that leaves ac_buffer_sz as it is.
ac_buffer_pop_none(buf) == buf

ac_buffer_pop(buf) == IF Len(buf) > 0 THEN SubSeq(buf, 1, Len(buf) - 1) ELSE buf

RECURSIVE find_prefix_skips_absent(_, _, _, _, _, _)
\* find_prefix that steps over a byte whose child slot is absent instead of
\* returning.
find_prefix_skips_absent(m, root_idx, prefix, pos, buf, g) ==
    IF pos >= Len(prefix)
    THEN [ret |-> root_idx, buf |-> buf, pos |-> pos, oob |-> m.oob, status |-> m.status]
    ELSE LET child_idx == prefix[pos + 1] - ASCII_OFFSET
             m1 == IF child_idx \in Slots THEN m ELSE [m EXCEPT !.oob = TRUE]
             slot == IF child_idx \in Slots THEN ChildAt(PoolAt(m, root_idx), child_idx)
                     ELSE g.read
         IN  IF child_idx \notin Slots /\ g.kill
             THEN [ret |-> INVALID_OFFSET, buf |-> buf, pos |-> pos, oob |-> TRUE,
                   status |-> "killed"]
             ELSE IF slot = INVALID_OFFSET
             THEN find_prefix_skips_absent(m1, root_idx, prefix, pos + 1, buf, g)
             ELSE find_prefix_skips_absent(m1, slot, prefix, pos + 1,
                                           ac_buffer_push(buf, prefix[pos + 1]), g)

RECURSIVE find_prefix(_, _, _, _, _, _)
\* find_prefix(root_idx, prefix): [ret: the node or INVALID_OFFSET, buf: ac_buffer
\* after the call, pos: bytes of prefix stepped over (++prefix), oob, status].
find_prefix(m, root_idx, prefix, pos, buf, g) ==
    IF pos >= Len(prefix)
    THEN [ret |-> root_idx, buf |-> buf, pos |-> pos, oob |-> m.oob, status |-> m.status]
    ELSE LET child_idx == prefix[pos + 1] - ASCII_OFFSET
             m1 == IF child_idx \in Slots THEN m ELSE [m EXCEPT !.oob = TRUE]
             slot == IF child_idx \in Slots THEN ChildAt(PoolAt(m, root_idx), child_idx)
                     ELSE g.read
         IN  IF child_idx \notin Slots /\ g.kill
             THEN [ret |-> INVALID_OFFSET, buf |-> buf, pos |-> pos, oob |-> TRUE,
                   status |-> "killed"]
             ELSE IF slot = INVALID_OFFSET
             THEN [ret |-> INVALID_OFFSET, buf |-> buf, pos |-> pos, oob |-> m1.oob,
                   status |-> m1.status]
             ELSE find_prefix(m1, slot, prefix, pos + 1,
                              ac_buffer_push(buf, prefix[pos + 1]), g)

\* The first node after i that is kept in m.pool, or the node after the
\* filler path: the nodes from i up to it are nodes of the filler path.
PathStop(m, i) ==
    LET later == {j \in DOMAIN m.pool : j > i} \cup {m.fill + 1}
    IN  CHOOSE x \in later : \A y \in later : x <= y

Max(a, b) == IF a > b THEN a ELSE b

RECURSIVE print_suggestions(_, _, _, _)
RECURSIVE print_children(_, _, _, _, _)
\* The for loop of print_suggestions, from slot i on: the slots are visited in
\* ascending order and the absent ones are skipped.
print_children(m, root_idx, i, buf, o) ==
    LET present == {k \in DOMAIN PoolAt(m, root_idx).children :
                       /\ i <= k
                       /\ k < CHILDREN_COUNT
                       /\ ChildAt(PoolAt(m, root_idx), k) # INVALID_OFFSET}
    IN  IF present = {}
        THEN [buf |-> buf, out |-> o, peak |-> Len(buf)]
        ELSE LET k == CHOOSE x \in present : \A y \in present : x <= y
                 r == print_suggestions(m, ChildAt(PoolAt(m, root_idx), k),
                                        ac_buffer_push(buf, k + ASCII_OFFSET), o)
                 rest == print_children(m, root_idx, k + 1, ac_buffer_pop(r.buf), r.out)
             IN  [rest EXCEPT !.peak = Max(r.peak, rest.peak)]

\* print_suggestions from node root_idx of the filler path: the calls for
\* the nodes root_idx .. e of the path, taken in one step.  Each node but the
\* last has the one child after it, so the calls push e - root_idx times
\* FILL_BYTE on the way down and pop as often on the way back; the last
\* node of the path is the only terminal one.
print_path(m, root_idx, buf, o) ==
    LET stop == PathStop(m, root_idx)
        e == Min(stop, m.fill)
        deep == buf \o [x \in 1 .. (e - root_idx) |-> FILL_BYTE]
        r == IF stop <= m.fill
             THEN print_suggestions(m, stop, deep, o)
             ELSE [buf |-> deep, out |-> Append(o, deep), peak |-> Len(deep)]
    IN  [buf |-> buf, out |-> r.out, peak |-> r.peak]

\* print_suggestions that writes the word of a node after the words below it.
print_suggestions_post_order(m, root_idx, buf, o) ==
    LET r == print_children(m, root_idx, 0, buf, o)
    IN  [r EXCEPT !.out = IF PoolAt(m, root_idx).terminal
                          THEN Append(r.out, buf) ELSE r.out]

\* print_suggestions(root_idx): [buf: ac_buffer after the call, out: stdout,
\* peak: the largest ac_buffer_sz during the call].  ac_buffer_push does not
\* test ac_buffer_sz: with peak above AC_BUFFER_CAP bytes were stored past the
\* end of ac_buffer, and buf and out are those of a run in which the bytes
\* after the array took the stores unharmed.
print_suggestions(m, root_idx, buf, o) ==
    IF root_idx \in DOMAIN m.pool
    THEN print_children(m, root_idx, 0, buf,
                        IF PoolAt(m, root_idx).terminal THEN Append(o, buf) ELSE o)
    ELSE print_path(m, root_idx, buf, o)

\* ------------------------------------------------------------ DOT export
\* The statements of the DOT file, in the order written.  The two opening
\* lines and the closing brace are the same in every file and are not kept.
\* "Node_<node> [label=<label>]", with ",fillcolor=lightgreen" when marked.
Decl(node, label, marked) ==
    [kind |-> "node", from |-> INVALID_OFFSET, node |-> node, label |-> label,
     marked |-> marked]
\* "Node_<from> -> Node_<node> [label=<label>]"
Edge(from, node, label) ==
    [kind |-> "edge", from |-> from, node |-> node, label |-> label, marked |-> FALSE]

\* The bytes of "root", the label generate_dot uses without a prefix.
RootLabel == <<114, 111, 111, 116>>

\* The body of the inner loop of both dumps, for the bound slot j of node i.
SlotStatements(m, i, j) ==
    LET child_index == ChildAt(PoolAt(m, i), j)
    IN  <<Decl(child_index, <<j + ASCII_OFFSET>>, PoolAt(m, child_index).terminal),
          Edge(i, child_index, <<j + ASCII_OFFSET>>)>>

\* The bound slots of node i from slot j on.
BoundFrom(m, i, j) ==
    {k \in DOMAIN PoolAt(m, i).children :
        j <= k /\ k < CHILDREN_COUNT /\ ChildAt(PoolAt(m, i), k) # INVALID_OFFSET}

\* What both dumps write for the nodes i .. e-1 of the filler path, each of
\* which has the one child i + 1.
PathStatements(m, i, e) ==
    [x \in 1 .. (2 * (e - i)) |->
        LET n == i + ((x - 1) \div 2)
        IN  SlotStatements(m, n, FILL_BYTE - ASCII_OFFSET)[2 - (x % 2)]]

RECURSIVE dump_dot_prefix(_, _, _)
RECURSIVE dump_prefix_slots(_, _, _, _)
\* The for loop of dump_dot_prefix, from slot i on.
dump_prefix_slots(m, root_idx, i, o) ==
    LET present == BoundFrom(m, root_idx, i)
    IN  IF present = {}
        THEN o
        ELSE LET k == CHOOSE x \in present : \A y \in present : x <= y
             IN  dump_prefix_slots(m, root_idx, k + 1,
                     dump_dot_prefix(m, ChildAt(PoolAt(m, root_idx), k),
                                     o \o SlotStatements(m, root_idx, k)))

\* dump_dot_prefix that leaves its loop after the first bound slot.
dump_dot_prefix_first_child(m, root_idx, o) ==
    LET present == BoundFrom(m, root_idx, 0)
    IN  IF present = {}
        THEN o
        ELSE LET k == CHOOSE x \in present : \A y \in present : x <= y
             IN  dump_dot_prefix(m, ChildAt(PoolAt(m, root_idx), k),
                                 o \o SlotStatements(m, root_idx, k))

\* dump_dot_prefix(sink, root_idx): the file after the call, o being the file
\* before it.  A run of nodes of the filler path is written in one step.
dump_dot_prefix(m, root_idx, o) ==
    IF root_idx \in DOMAIN m.pool
    THEN dump_prefix_slots(m, root_idx, 0, o)
    ELSE LET stop == PathStop(m, root_idx)
             e == Min(stop, m.fill)
             o1 == o \o PathStatements(m, root_idx, e)
         IN  IF stop <= m.fill THEN dump_dot_prefix(m, stop, o1) ELSE o1

RECURSIVE dump_whole_slots(_, _, _, _)
\* The inner loop of dump_dot_whole for node i, from slot j on.
dump_whole_slots(m, i, j, o) ==
    LET present == BoundFrom(m, i, j)
    IN  IF present = {}
        THEN o
        ELSE LET k == CHOOSE x \in present : \A y \in present : x <= y
             IN  dump_whole_slots(m, i, k + 1, o \o SlotStatements(m, i, k))

RECURSIVE dump_whole_nodes(_, _, _)
\* The outer loop of dump_dot_whole, from node i on.
dump_whole_nodes(m, i, o) ==
    IF i >= m.count
    THEN o
    ELSE IF i \in DOMAIN m.pool
    THEN dump_whole_nodes(m, i + 1, dump_whole_slots(m, i, 0, o))
    ELSE LET stop == PathStop(m, i)
         IN  dump_whole_nodes(m, stop, o \o PathStatements(m, i, Min(stop, m.fill)))

\* dump_dot_whole that leaves out the node allocated first after the root.
dump_dot_whole_skips_node(m, o) ==
    dump_whole_nodes(m, 2, dump_whole_slots(m, 0, 0, o))

\* dump_dot_whole(sink)
dump_dot_whole(m, o) == dump_whole_nodes(m, 0, o)

\* generate_dot(root_idx, prefix) once the file is open; has_prefix: prefix is
\* not a null pointer.
generate_dot(m, root_idx, has_prefix, prefix) ==
    LET o == <<Decl(root_idx, IF has_prefix THEN prefix ELSE RootLabel, FALSE)>>
    IN  IF root_idx = 0 THEN dump_dot_whole(m, o) ELSE dump_dot_prefix(m, root_idx, o)

\* ------------------------------------------------------------ main
\* parse_options before its loop: no option read, the flags clear, err_flag 0.
NoOptions == [argv |-> <<>>, kflag |-> FALSE, sflag |-> FALSE, cflag |-> FALSE,
              pflag |-> FALSE, err_flag |-> 0, error |-> "none"]

NoCall == [op |-> "none", arg |-> <<>>, ok |-> TRUE, node |-> INVALID_OFFSET, pos |-> 0]

Init ==
    /\ pc = "init"
    /\ pool = [j \in {} |-> FreshNode]
    /\ count = 0
    /\ capacity = 0
    /\ heap = 0
    /\ fill = 0
    /\ nlines = 0
    /\ inserted = {}
    /\ last = NoCall
    /\ ac_buffer = <<>>
    /\ out = <<>>
    /\ oob = FALSE
    /\ ac_peak = 0
    /\ dot = <<>>
    /\ cli = NoOptions

\* init_pool(); on failure main leaves through cleanup.
InitPool(malloc_ok) ==
    /\ pc = "init"
    /\ pc' = IF malloc_ok THEN "root" ELSE "done"
    /\ capacity' = IF malloc_ok THEN INITIAL_POOL_CAP ELSE capacity
    /\ heap' = IF malloc_ok THEN INITIAL_POOL_CAP ELSE heap
    /\ last' = [NoCall EXCEPT !.op = "init_pool", !.ok = malloc_ok]
    /\ UNCHANGED <<pool, count, fill, nlines, inserted, ac_buffer, out, oob,
                   ac_peak, dot, cli>>

\* How main goes on after a call that left the machine in state m.
PcAfter(m, ok, next) ==
    IF m.status = "exit" THEN "exited"
    ELSE IF m.status = "killed" THEN "killed"
    ELSE IF ok THEN next ELSE "done"

\* root_idx = alloc_node() in main.
AllocRoot(realloc_ok) ==
    /\ pc = "root"
    /\ LET a == alloc_node(Mem, realloc_ok)
       IN  /\ pool' = a.m.pool
           /\ count' = a.m.count
           /\ capacity' = a.m.capacity
           /\ heap' = a.m.heap
           /\ pc' = PcAfter(a.m, a.ret # INVALID_OFFSET, "populate")
           /\ last' = [NoCall EXCEPT !.op = "alloc_node", !.ok = (a.ret # INVALID_OFFSET),
                                     !.node = a.ret]
    /\ UNCHANGED <<fill, nlines, inserted, ac_buffer, out, oob, ac_peak, dot, cli>>

\* One iteration of populate_trie: insert_text(root_idx, lines[i]); a false
\* result makes populate_trie return false and main leave through cleanup.
InsertText(text, realloc_ok, g, max_lines) ==
    /\ pc = "populate"
    /\ nlines < max_lines
    /\ LET r == insert_text(Mem, 0, text, realloc_ok, g)
       IN  /\ pool' = r.m.pool
           /\ count' = r.m.count
           /\ capacity' = r.m.capacity
           /\ heap' = r.m.heap
           /\ oob' = r.m.oob
           /\ pc' = PcAfter(r.m, r.ret, "populate")
           /\ inserted' = IF r.ret THEN inserted \cup {text} ELSE inserted
           /\ last' = [NoCall EXCEPT !.op = "insert_text", !.arg = text, !.ok = r.ret]
    /\ nlines' = nlines + 1
    /\ UNCHANGED <<fill, ac_buffer, out, ac_peak, dot, cli>>

\* populate_trie has gone through all the lines and returns true.  There is
\* at least one line: main leaves before init_pool when io_split_lines
\* returns NULL, which it does for an input without any line.
EndPopulate ==
    /\ pc = "populate"
    /\ nlines >= 1
    /\ pc' = "args"
    /\ UNCHANGED <<pool, count, capacity, heap, fill, nlines, inserted, last,
                   ac_buffer, out, oob, ac_peak, dot, cli>>

\* process_args with -c prefix: find_prefix, then print_suggestions on the
\* node found.
Complete(prefix, g) ==
    /\ pc = "args"
    /\ LET f == find_prefix(Mem, 0, prefix, 0, ac_buffer, g)
           p == IF f.ret # INVALID_OFFSET /\ f.status = "ok"
                THEN print_suggestions(Mem, f.ret, f.buf, out)
                ELSE [buf |-> f.buf, out |-> out, peak |-> Len(f.buf)]
           past_end == p.peak > AC_BUFFER_CAP
       IN  /\ ac_buffer' = p.buf
           /\ ac_peak' = Max(ac_peak, p.peak)
           /\ out' = IF past_end /\ g.kill THEN out ELSE p.out
           /\ oob' = f.oob
           /\ pc' = IF f.status = "killed" \/ (past_end /\ g.kill)
                    THEN "killed" ELSE "done"
           /\ last' = [op |-> "find_prefix", arg |-> prefix,
                       ok |-> (f.ret # INVALID_OFFSET), node |-> f.ret, pos |-> f.pos]
    /\ UNCHANGED <<pool, count, capacity, heap, fill, nlines, inserted, dot, cli>>

\* process_args with -s: find_prefix if a prefix was given (-p), then
\* generate_dot on the node found (the root without a prefix) and
\* generate_graph.  fopen_ok: generate_dot could open the file; graph_ok:
\* fclose and the dot command succeeded.
Export(has_prefix, prefix, fopen_ok, graph_ok, g) ==
    /\ pc = "args"
    /\ LET f == IF has_prefix
                THEN find_prefix(Mem, 0, prefix, 0, ac_buffer, g)
                ELSE [ret |-> 0, buf |-> ac_buffer, pos |-> 0, oob |-> oob,
                      status |-> "ok"]
           found == f.ret # INVALID_OFFSET /\ f.status = "ok"
       IN  /\ ac_buffer' = f.buf
           /\ ac_peak' = Max(ac_peak, Len(f.buf))
           /\ oob' = f.oob
           /\ dot' = IF found /\ fopen_ok
                     THEN generate_dot(Mem, f.ret, has_prefix, prefix)
                     ELSE dot
           /\ pc' = IF f.status = "killed" THEN "killed" ELSE "done"
           /\ last' = [op |-> "generate_dot", arg |-> prefix,
                       ok |-> (found /\ fopen_ok /\ graph_ok), node |-> f.ret,
                       pos |-> f.pos]
    /\ UNCHANGED <<pool, count, capacity, heap, fill, nlines, inserted, out, cli>>

Next ==
    \/ \E malloc_ok \in BOOLEAN : InitPool(malloc_ok)
    \/ \E realloc_ok \in BOOLEAN : AllocRoot(realloc_ok)
    \/ \E text \in Words, realloc_ok \in BOOLEAN :
           InsertText(text, realloc_ok, NoGarbage, MaxLines)
    \/ EndPopulate
    \/ \E prefix \in Words : Complete(prefix, NoGarbage)

\* The program on lines and prefixes over the printable alphabet.
Spec == Init /\ [][Next]_vars

\* ------------------------------------------------------------ export runs
NextDot ==
    \/ \E malloc_ok \in BOOLEAN : InitPool(malloc_ok)
    \/ \E realloc_ok \in BOOLEAN : AllocRoot(realloc_ok)
    \/ \E text \in Words, realloc_ok \in BOOLEAN :
           InsertText(text, realloc_ok, NoGarbage, DotLines)
    \/ EndPopulate
    \/ \E prefix \in Words, fopen_ok, graph_ok \in BOOLEAN :
           Export(TRUE, prefix, fopen_ok, graph_ok, NoGarbage)
    \/ \E fopen_ok, graph_ok \in BOOLEAN :
           Export(FALSE, <<>>, fopen_ok, graph_ok, NoGarbage)

\* The program run with -s, with and without -p prefix.
SpecDot == Init /\ [][NextDot]_vars

\* ------------------------------------------------------------ pool runs
\* Trie.capacity after n calls of alloc_node that all succeeded.
CapacityFor(n) ==
    IF n <= INITIAL_POOL_CAP THEN INITIAL_POOL_CAP
    ELSE IF n > INT32_MAX - (INT32_MAX % INITIAL_POOL_CAP) THEN INT32_MAX
    ELSE ((n + INITIAL_POOL_CAP - 1) \div INITIAL_POOL_CAP) * INITIAL_POOL_CAP

\* The state populate_trie is in after a filler line with a length in F went
\* in as the first line: nodes 1..fill are its path, the root's slot of
\* FILL_BYTE is bound to node 1.
FilledInit(F) ==
    /\ pc = "populate"
    /\ fill \in F
    /\ pool = [j \in {0} |-> ChildSet(FreshNode, FILL_BYTE - ASCII_OFFSET, 1)]
    /\ count = fill + 1
    /\ capacity = CapacityFor(fill + 1)
    /\ heap = capacity
    /\ nlines = 0
    /\ inserted = {}
    /\ last = NoCall
    /\ ac_buffer = <<>>
    /\ out = <<>>
    /\ oob = FALSE
    /\ ac_peak = 0
    /\ dot = <<>>
    /\ cli = NoOptions

PoolInit == FilledInit(FillSet)

NextPool ==
    \/ \E malloc_ok \in BOOLEAN : InitPool(malloc_ok)
    \/ \E realloc_ok \in BOOLEAN : AllocRoot(realloc_ok)
    \/ \E text \in Words, realloc_ok \in BOOLEAN :
           InsertText(text, realloc_ok, NoGarbage, PoolLines)

\* populate_trie on a pool that is fresh or next to a growth step.
SpecPool == (Init \/ PoolInit) /\ [][NextPool]_vars

\* ------------------------------------------------------------ options
\* What getopt_long can return for the option string "shkc:p:": the five
\* options and '?' for anything else.
Options == {"s", "h", "k", "c", "p", "?"}

\* One turn of the loop of parse_options: getopt_long returned c.  too_long:
\* strlen(optarg) >= AC_BUFFER_CAP.
GetOpt(c, too_long) ==
    /\ pc = "options"
    /\ Len(cli.argv) < MaxArgs
    /\ LET read == [cli EXCEPT !.argv = Append(cli.argv, c)]
       IN  CASE c = "k" ->
                  /\ cli' = [read EXCEPT !.err_flag = cli.err_flag + 1, !.kflag = TRUE]
                  /\ pc' = "options"
             [] c = "h" ->
                  /\ cli' = read
                  /\ pc' = "help"
             [] c = "s" ->
                  IF cli.cflag
                  THEN /\ cli' = [read EXCEPT !.error = "-s specified after -c"]
                       /\ pc' = "usage_err"
                  ELSE /\ cli' = [read EXCEPT
                                     !.err_flag = cli.err_flag
                                                  - (IF cli.pflag THEN 1 ELSE 0)
                                                  - (IF cli.kflag THEN 1 ELSE 0),
                                     !.sflag = TRUE]
                       /\ pc' = "options"
             [] c = "c" ->
                  IF cli.sflag
                  THEN /\ cli' = [read EXCEPT !.error = "-c specified after -s"]
                       /\ pc' = "usage_err"
                  ELSE IF too_long
                  THEN /\ cli' = [read EXCEPT !.error = "PREFIX too long"]
                       /\ pc' = "exited"
                  ELSE /\ cli' = [read EXCEPT !.cflag = TRUE]
                       /\ pc' = "options"
             [] c = "p" ->
                  /\ cli' = [read EXCEPT
                                !.err_flag = IF ~cli.sflag THEN 1 ELSE cli.err_flag,
                                !.pflag = TRUE]
                  /\ pc' = "options"
             [] OTHER ->
                  /\ cli' = [read EXCEPT !.error = "unknown option"]
                  /\ pc' = "usage_err"
    /\ UNCHANGED <<pool, count, capacity, heap, fill, nlines, inserted, last,
                   ac_buffer, out, oob, ac_peak, dot>>

\* getopt_long returned -1: the test of err_flag after the loop.
EndOptions ==
    /\ pc = "options"
    /\ IF cli.err_flag # 0
       THEN /\ cli' = [cli EXCEPT !.error = "specified without -s"]
            /\ pc' = "usage_err"
       ELSE /\ cli' = cli
            /\ pc' = "parsed"
    /\ UNCHANGED <<pool, count, capacity, heap, fill, nlines, inserted, last,
                   ac_buffer, out, oob, ac_peak, dot>>

\* main at the call of parse_options.
OptionsInit ==
    /\ pc = "options"
    /\ pool = [j \in {} |-> FreshNode]
    /\ count = 0
    /\ capacity = 0
    /\ heap = 0
    /\ fill = 0
    /\ nlines = 0
    /\ inserted = {}
    /\ last = NoCall
    /\ ac_buffer = <<>>
    /\ out = <<>>
    /\ oob = FALSE
    /\ ac_peak = 0
    /\ dot = <<>>
    /\ cli = NoOptions

NextOptions ==
    \/ \E c \in Options, too_long \in BOOLEAN : GetOpt(c, too_long)
    \/ EndOptions

\* parse_options on every command line of at most MaxArgs options.
SpecOptions == OptionsInit /\ [][NextOptions]_vars

\* ------------------------------------------------------------ long lines
\* Lengths of the filler line around the size of ac_buffer.
LongFills == {AC_BUFFER_CAP - 1, AC_BUFFER_CAP, AC_BUFFER_CAP + 1}

LongInit == FilledInit(LongFills)

NextLong ==
    \/ \E text \in Words, realloc_ok \in BOOLEAN :
           InsertText(text, realloc_ok, NoGarbage, LongLines)
    \/ EndPopulate
    \/ \E prefix \in Words \cup {<<FILL_BYTE>>}, g \in ReadGarbage(0) :
           Complete(prefix, g)

\* The program run with -c on an input whose first line is about as long as
\* ac_buffer.
SpecLong == LongInit /\ [][NextLong]_vars

\* ------------------------------------------------------------ raw bytes
NextBytes ==
    \/ \E malloc_ok \in BOOLEAN : InitPool(malloc_ok)
    \/ \E realloc_ok \in BOOLEAN : AllocRoot(realloc_ok)
    \/ \E text \in RawWords, realloc_ok \in BOOLEAN, g \in Garbage(count) :
           InsertText(text, realloc_ok, g, RawLines)
    \/ EndPopulate
    \/ \E prefix \in RawWords, g \in ReadGarbage(count) : Complete(prefix, g)

\* The program on lines and prefixes that may hold bytes outside the alphabet.
SpecBytes == Init /\ [][NextBytes]_vars

\* ------------------------------------------------------------ properties
IsPrefix(p, w) == Len(p) <= Len(w) /\ SubSeq(w, 1, Len(p)) = p

\* a comes strictly before b in lexicographic byte order
LexLess(a, b) ==
    \/ Len(a) < Len(b) /\ IsPrefix(a, b)
    \/ \E k \in 1 .. Min(Len(a), Len(b)) :
           /\ SubSeq(a, 1, k - 1) = SubSeq(b, 1, k - 1)
           /\ a[k] < b[k]

\* The node find_prefix(0, w) reaches in the current pool.
NodeOf(w) == find_prefix(Mem, 0, w, 0, <<>>, NoGarbage).ret

Queried == pc = "done" /\ last.op = "find_prefix"

\* C1: after successful insertions of words over the printable alphabet, for
\* a prefix P that find_prefix finds, print_suggestions emits exactly the
\* inserted words that start with P: each emitted word was inserted and
\* starts with P, each inserted word that starts with P is emitted, and no
\* word is emitted twice.
C1_ExactCompletions ==
    (Queried /\ last.ok) =>
        /\ \A i \in 1 .. Len(out) : out[i] \in inserted /\ IsPrefix(last.arg, out[i])
        /\ \A w \in inserted : IsPrefix(last.arg, w) => \E i \in 1 .. Len(out) : out[i] = w
        /\ \A i, j \in 1 .. Len(out) : i # j => out[i] # out[j]

\* A query with a non-empty prefix that emitted two words and left out an
\* inserted one.
C1_Witness ==
    /\ Queried /\ last.ok
    /\ Len(last.arg) >= 1
    /\ Len(out) >= 2
    /\ \E w \in inserted : ~IsPrefix(last.arg, w)

\* C2: print_suggestions emits the stored words in strictly ascending
\* lexicographic byte order, whatever the order of insertion: the word of a
\* node comes before the words below it and children are visited in
\* ascending byte value.
C2_AscendingOrder ==
    Queried => \A i, j \in 1 .. Len(out) : i < j => LexLess(out[i], out[j])

\* Three words were emitted, one of them a proper prefix of the next, and the
\* word emitted last was inserted before the word emitted first (its node
\* has the smaller index).
C2_Witness ==
    /\ Queried
    /\ Len(out) >= 3
    /\ \E i \in 1 .. (Len(out) - 1) : Len(out[i]) < Len(out[i + 1]) /\ IsPrefix(out[i], out[i + 1])
    /\ NodeOf(out[Len(out)]) < NodeOf(out[1])

\* C3: find_prefix(root, P) returns INVALID_OFFSET exactly when no inserted
\* word has P as a prefix; it returns at the first absent child slot, having
\* stepped over (and pushed) only the bytes before it; for the empty prefix
\* it returns root.
C3_NotFoundIffNoWord ==
    Queried =>
        /\ (last.node = INVALID_OFFSET) <=> ~(\E w \in inserted : IsPrefix(last.arg, w))
        /\ last.node = INVALID_OFFSET =>
              /\ last.pos < Len(last.arg)
              /\ ac_buffer = SubSeq(last.arg, 1, last.pos)
              /\ \E w \in inserted : IsPrefix(SubSeq(last.arg, 1, last.pos), w)
              /\ ~(\E w \in inserted : IsPrefix(SubSeq(last.arg, 1, last.pos + 1), w))
        /\ last.arg = <<>> => last.node = 0

\* A prefix of two bytes was not found at its first byte although its second
\* byte starts an inserted word.
C3_Witness ==
    /\ Queried
    /\ last.node = INVALID_OFFSET
    /\ Len(last.arg) = 2
    /\ last.pos = 0
    /\ \E w \in inserted : IsPrefix(<<last.arg[2]>>, w)

\* C4: for every inserted word W find_prefix(root, W) returns a node whose
\* terminal flag is true; a node's terminal flag is true only if the word
\* its path spells was inserted (every node has such a path); the root is
\* terminal exactly when the empty word was inserted.  Stated of the states
\* between insertions; the query that follows does not write the pool.
C4_TerminalIffInserted ==
    pc \in {"populate", "args"} =>
        LET node == [w \in Words |-> NodeOf(w)]
        IN  /\ \A w \in inserted :
                   node[w] # INVALID_OFFSET /\ PoolAt(Mem, node[w]).terminal
            /\ \A w \in Words :
                   (node[w] # INVALID_OFFSET /\ PoolAt(Mem, node[w]).terminal)
                       => w \in inserted
            /\ DOMAIN pool \subseteq {node[w] : w \in Words}
            /\ pool[0].terminal <=> (<<>> \in inserted)

\* The empty word and a word with a non-terminal node on its path are stored.
C4_Witness ==
    /\ pc = "populate"
    /\ <<>> \in inserted
    /\ \E w \in inserted :
           /\ Len(w) = 2
           /\ SubSeq(w, 1, 1) \notin inserted
           /\ ~PoolAt(Mem, NodeOf(SubSeq(w, 1, 1))).terminal

\* The step is a call insert_text(0, last'.arg).
InsertStep == last'.op = "insert_text" /\ nlines' = nlines + 1

\* C5: inserting a word that was already inserted changes nothing: count,
\* capacity, every child slot and every terminal flag stay as they were.
C5_ReinsertChangesNothing ==
    [][(InsertStep /\ last'.arg \in inserted) =>
          (last'.ok /\ pool' = pool /\ count' = count /\ capacity' = capacity
           /\ heap' = heap /\ inserted' = inserted)]_vars

\* More calls than stored words: a word of two bytes was inserted again.
C5_Witness ==
    /\ last.op = "insert_text"
    /\ Len(last.arg) = 2
    /\ nlines = 2
    /\ Cardinality(inserted) = 1

\* C6: 0 <= count <= capacity <= INT32_MAX, and every child slot of every
\* node below count holds INVALID_OFFSET or an index in [0, count).
C6_PoolInvariant ==
    /\ 0 <= count /\ count <= capacity /\ capacity <= INT32_MAX
    /\ \A n \in (DOMAIN pool) \cup ({1, fill} \cap (1 .. fill)) :
           /\ n < count
           /\ \A k \in Slots :
                  LET v == ChildAt(PoolAt(Mem, n), k)
                  IN  v = INVALID_OFFSET \/ (0 <= v /\ v < count)
           /\ DOMAIN PoolAt(Mem, n).children \subseteq Slots

\* The pool was grown by an insertion that bound a new node.
C6_Witness ==
    /\ capacity = 2 * INITIAL_POOL_CAP
    /\ count = INITIAL_POOL_CAP + 2
    /\ \E k \in Slots : ChildAt(pool[0], k) = INITIAL_POOL_CAP

\* C7: when the identifier space is used up (count = capacity = INT32_MAX)
\* the failure of alloc_node is propagated: insert_text returns false to its
\* caller, which leaves through cleanup; the process is not ended by the
\* core.
C7_ExhaustionPropagated ==
    (count = INT32_MAX /\ last.op = "insert_text" /\ ~last.ok) => pc = "done"

\* C8: a failed growth leaves count, capacity and the nodes as they were, so
\* capacity never exceeds the number of nodes the backing store holds.
C8_CapacityWithinStore ==
    capacity <= heap

\* The step holds a call of alloc_node made with count = capacity < INT32_MAX:
\* the call went past the old capacity, or it failed (in these runs a call
\* fails only in alloc_node, and then main leaves through cleanup).
AllocAtFull ==
    /\ pc \in {"root", "populate"}
    /\ capacity < INT32_MAX
    /\ \/ count' > capacity
       \/ pc' = "done" /\ ~last'.ok

\* C9 as stated: each growth doubles capacity, except the last one before
\* INT32_MAX, which adds INT32_MAX - capacity.
C9_GrowthDoubles ==
    [][AllocAtFull =>
          capacity' = (IF INT32_MAX - capacity < capacity THEN INT32_MAX
                       ELSE capacity + capacity)]_vars

\* C9 amended: each time alloc_node is called with count = capacity <
\* INT32_MAX, capacity grows by INITIAL_POOL_CAP, except when fewer than
\* INITIAL_POOL_CAP identifiers remain, where it grows by exactly INT32_MAX -
\* capacity; capacity changes in no other call of alloc_node or insert_text,
\* never shrinks and never exceeds INT32_MAX.
C9_GrowthByInitialCap ==
    [][/\ AllocAtFull =>
            capacity' = capacity + Min(INT32_MAX - capacity, INITIAL_POOL_CAP)
       /\ (pc # "init" /\ capacity' # capacity) => AllocAtFull
       /\ capacity' >= capacity
       /\ capacity' <= INT32_MAX]_vars

\* The pool grew from two to three times INITIAL_POOL_CAP.
C9_Witness ==
    /\ capacity = 3 * INITIAL_POOL_CAP
    /\ count = 2 * INITIAL_POOL_CAP + 1
    /\ heap = capacity

HasBadByte(text) == \E i \in 1 .. Len(text) : text[i] - ASCII_OFFSET \notin Slots

\* C10: insert_text and find_prefix given a string with a byte outside
\* 32..126 report the invalid byte at once and process no part of the
\* string: the call does not succeed, no node is allocated, no slot is bound,
\* no terminal flag is set, nothing is pushed or printed, and no children
\* array is indexed outside [0, CHILDREN_COUNT).
C10_InvalidByteRejected ==
    [][/\ (InsertStep /\ HasBadByte(last'.arg)) =>
            (~last'.ok /\ pool' = pool /\ count' = count /\ ~oob')
       /\ (pc = "args" /\ pc' # "args" /\ HasBadByte(last'.arg)) =>
            (~last'.ok /\ ac_buffer' = ac_buffer /\ out' = out /\ ~oob')]_vars

\* generate_dot wrote the file.
Exported == pc = "done" /\ last.op = "generate_dot" /\ dot # <<>>

\* The positions of the edge statements of the file.
EdgeAt == {x \in 1 .. Len(dot) : dot[x].kind = "edge"}

\* The bound child slots <<node, slot>> of the nodes in N.
BoundSlots(N) ==
    {s \in N \X Slots : ChildAt(PoolAt(Mem, s[1]), s[2]) # INVALID_OFFSET}

\* The file holds exactly one edge statement for each slot in B, from the
\* node holding the slot to the child bound in it and labelled with the byte
\* of the slot, and no other edge statement.
EdgesAre(B) ==
    /\ \A s \in B :
           Cardinality({x \in EdgeAt :
               dot[x] = Edge(s[1], ChildAt(PoolAt(Mem, s[1]), s[2]),
                             <<s[2] + ASCII_OFFSET>>)}) = 1
    /\ Cardinality(EdgeAt) = Cardinality(B)

\* C11: for a whole-tree export (generate_dot with root index 0)
\* dump_dot_whole emits exactly one edge statement per bound child slot of
\* each allocated node (index below count) and no other edge; when no child
\* slot is bound the file holds the declaration of the root and nothing
\* else.
C11_WholeTreeEdges ==
    (Exported /\ last.node = 0) =>
        /\ EdgesAre(BoundSlots(0 .. (count - 1)))
        /\ dot[1].kind = "node" /\ dot[1].node = 0
        /\ (BoundSlots(0 .. (count - 1)) = {}) => Len(dot) = 1

\* A whole-tree export with edges out of two nodes, one of them with two
\* bound slots.
C11_Witness ==
    /\ Exported /\ last.node = 0
    /\ Cardinality(EdgeAt) >= 3
    /\ \E x, y \in EdgeAt : dot[x].from # dot[y].from
    /\ \E x, y \in EdgeAt : x # y /\ dot[x].from = dot[y].from

\* The nodes reachable from the node of prefix p: the nodes of the strings
\* that extend p.
ReachableFrom(p) ==
    {NodeOf(w) : w \in {v \in Words : IsPrefix(p, v)}} \ {INVALID_OFFSET}

C13_OneMarkedDeclaration ==
    Exported =>
        \A n \in {dot[x].node : x \in 1 .. Len(dot)} \cup {dot[x].from : x \in EdgeAt} :
            LET decl == {x \in 1 .. Len(dot) : dot[x].kind = "node" /\ dot[x].node = n}
            IN  /\ Cardinality(decl) = 1
                /\ \A x \in decl : dot[x].marked <=> PoolAt(Mem, n).terminal

\* The words stored in the pool of m: the strings whose node has the terminal
\* flag set.
StoredIn(m) ==
    {w \in Words :
        LET n == find_prefix(m, 0, w, 0, <<>>, NoGarbage).ret
        IN  n # INVALID_OFFSET /\ PoolAt(m, n).terminal}

\* The step is a call of insert_text in which a call of alloc_node got no
\* node (in these runs insert_text fails in no other way).
AllocFailed == InsertStep /\ pc' # "populate"

\* What a failed insert_text leaves behind: no terminal flag was set, no
\* bound slot was changed, count did not go down, every node allocated in the
\* call is bound in the slot of a node, and the stored words are the same.
FailureLeavesWords ==
    /\ \A n \in DOMAIN pool' : n = 0 \/ n > fill
    /\ \A n \in DOMAIN pool :
           /\ pool'[n].terminal = pool[n].terminal
           /\ \A k \in DOMAIN pool[n].children :
                  ChildAt(pool'[n], k) = pool[n].children[k]
    /\ count' >= count
    /\ \A n \in count .. (count' - 1) :
           /\ ~pool'[n].terminal
           /\ \E p \in DOMAIN pool', k \in Slots : ChildAt(pool'[p], k) = n
    /\ inserted' = inserted
    /\ StoredIn(Mem') = StoredIn(Mem)

\* C14: if an allocation fails during insert_text(root, W), the call returns
\* false to populate_trie, which stops at that word and makes main leave
\* through cleanup; no terminal flag was set and no bound slot changed, the
\* nodes allocated earlier in the call stay allocated and linked, and the set
\* of stored words is the same as before the call.
C14_FailedInsertReturnsFalse ==
    [][AllocFailed => (pc' = "done" /\ ~last'.ok /\ FailureLeavesWords)]_vars

\* C15: with a query prefix shorter than AC_BUFFER_CAP, ac_buffer_sz never
\* exceeds AC_BUFFER_CAP during find_prefix and print_suggestions, whatever
\* trie insert_text built, so no ac_buffer_push stores past the end of
\* ac_buffer.
C15_BufferWithinCap ==
    ac_peak <= AC_BUFFER_CAP

\* The nodes from which the traversals are written out: every node of a pool
\* without a filler line, and the nodes after the filler path otherwise.
Walkable == {n \in DOMAIN pool : fill = 0 \/ n > fill}

\* C16: print_suggestions and dump_dot_prefix terminate from any node of any
\* trie built by insert_text, the child links forming no cycle: a slot that
\* is bound keeps its value in every later step, every bound child index is
\* greater than the index of the node holding the slot, and from a node n the
\* two traversals visit no more than the count - 1 - n nodes after it (one
\* declaration and one edge, and at most one word, per node visited).
C16_NoCycleTerminates ==
    [][/\ \A n \in DOMAIN pool : \A k \in DOMAIN pool[n].children :
              pool[n].children[k] # INVALID_OFFSET =>
                  /\ n \in DOMAIN pool'
                  /\ ChildAt(pool'[n], k) = pool[n].children[k]
       /\ \A n \in DOMAIN pool' : \A k \in DOMAIN pool'[n].children :
              pool'[n].children[k] = INVALID_OFFSET \/ pool'[n].children[k] > n
       /\ \A n \in Walkable' :
              /\ Len(dump_dot_prefix(Mem', n, <<>>)) <= 2 * (count' - 1 - n)
              /\ Len(print_suggestions(Mem', n, <<>>, <<>>).out) <= count' - n]_vars

\* The second insertion went through a slot the first one bound and bound
\* another slot of the node below it.
C16_Witness ==
    /\ pc = "populate"
    /\ nlines = 2
    /\ \E n \in DOMAIN pool : n > 0 /\ Cardinality(DOMAIN pool[n].children) = 2

\* Option c was read.
Given(c) == \E i \in 1 .. Len(cli.argv) : cli.argv[i] = c

\* C17: parse_options ends in the usage error of its err_flag test, the one
\* made for -k and -p, exactly when -k or -p was given and -s was not; with
\* -s given, every combination of -k and -p is accepted, in any order and
\* however often repeated.
C17_UsageErrorIffNoSvg ==
    (pc = "parsed" \/ (pc = "usage_err" /\ cli.error = "specified without -s")) =>
        ((pc = "usage_err") <=> ((Given("k") \/ Given("p")) /\ ~Given("s")))

\* The bound child slots <<node, slot>> of the nodes kept in the pool.
KeptSlots ==
    {s \in (DOMAIN pool) \X Slots : ChildAt(pool[s[1]], s[2]) # INVALID_OFFSET}

RECURSIVE ReachedFrom(_)
\* The nodes reached from the nodes in N through the slots of the nodes kept
\* in the pool.
ReachedFrom(N) ==
    LET more == N \cup {ChildAt(pool[s[1]], s[2]) : s \in {t \in KeptSlots : t[1] \in N}}
    IN  IF more = N THEN N ELSE ReachedFrom(more)

\* The edge statements of a file.
EdgesOf(file) == {file[x] : x \in {y \in 1 .. Len(file) : file[y].kind = "edge"}}

\* C18: after any sequence of insert_text calls, failed ones included, node
\* 0 is referenced by no child slot, every other allocated node is referenced
\* by exactly one child slot and is reachable from node 0, and so
\* dump_dot_whole emits the same edges as a depth-first dump from node 0,
\* each of them once.  The nodes of the filler path are referenced by the
\* node before them (ChainNode), node 1 by the root, and by no node kept in
\* the pool; the two dumps are written out for every pool without a filler
\* line and, with a filler line shorter than INITIAL_POOL_CAP, for the pool a
\* failed call leaves.
C18_EveryNodeLinkedOnce ==
    count >= 1 =>
        /\ DOMAIN pool = {0} \cup ((fill + 1) .. (count - 1))
        /\ \A s \in KeptSlots : ChildAt(pool[s[1]], s[2]) # 0
        /\ \A n \in (DOMAIN pool \ {0}) \cup ({1} \cap (1 .. fill)) :
               Cardinality({s \in KeptSlots : ChildAt(pool[s[1]], s[2]) = n}) = 1
        /\ \A s \in KeptSlots :
               LET v == ChildAt(pool[s[1]], s[2])
               IN  (1 <= v /\ v <= fill) => v = 1
        /\ (DOMAIN pool) \cup ({1} \cap (1 .. fill)) = ReachedFrom({0})
        /\ (fill = 0 \/ (fill < INITIAL_POOL_CAP /\ ~last.ok)) =>
               LET whole == dump_dot_whole(Mem, <<>>)
                   dfs == dump_dot_prefix(Mem, 0, <<>>)
               IN  /\ EdgesOf(whole) = EdgesOf(dfs)
                   /\ Len(whole) = Len(dfs)
                   /\ Len(whole) = 2 * Cardinality(EdgesOf(whole))

\* The first insertion after the filler line failed after it had allocated
\* a node and bound it in a slot of the root.
C18_Witness ==
    /\ pc = "done"
    /\ last.op = "insert_text" /\ ~last.ok
    /\ nlines = 1
    /\ count = INITIAL_POOL_CAP
    /\ fill = INITIAL_POOL_CAP - 2
    /\ Cardinality(DOMAIN pool[0].children) = 2

====
